---- MODULE Spec2Model ----
(***************************************************************************)
(* A model of pmatic's low level XML-RPC client, class XMLAPI of           *)
(* src/pmatic/xml_api.py: one client instance shared by several caller     *)
(* threads, its re-entrant lock, the lazy initialization, the method       *)
(* catalog and the dynamic dispatch of calls.  The transport (xmlrpclib's  *)
(* ServerProxy) is an instrumented stub whose outcomes are chosen          *)
(* nondeterministically.                                                   *)
(***************************************************************************)
EXTENDS Naturals, Sequences, FiniteSets, TLC

(***************************************************************************)
(* Strings.  A Python string is a TLA+ string; Len, \o and SubSeq act on   *)
(* it as on a sequence of characters.                                      *)
(***************************************************************************)
CharAt(s, i) == SubSeq(s, i, i)

UpperChars == "ABCDEFGHIJKLMNOPQRSTUVWXYZ"

LowerChars == "abcdefghijklmnopqrstuvwxyz"

DigitChars == "0123456789"

CharsOf(s) == { CharAt(s, i) : i \in 1..Len(s) }

UpperSet == CharsOf(UpperChars)

LowerSet == CharsOf(LowerChars)

DigitSet == CharsOf(DigitChars)

IsUpper(c) == c \in UpperSet

IsLower(c) == c \in LowerSet

IsDigit(c) == c \in DigitSet

\* str.lower() on one character.
LowerChar(c) ==
    IF IsUpper(c)
    THEN CharAt(LowerChars, CHOOSE i \in 1..Len(UpperChars) : CharAt(UpperChars, i) = c)
    ELSE c

\* str.lower()
RECURSIVE StrLower(_)
StrLower(s) ==
    IF Len(s) = 0 THEN ""
    ELSE LowerChar(CharAt(s, 1)) \o StrLower(SubSeq(s, 2, Len(s)))

\* str.startswith(prefix)
StartsWith(s, prefix) ==
    /\ Len(prefix) <= Len(s)
    /\ SubSeq(s, 1, Len(prefix)) = prefix

\* str.replace(old, new): the non-overlapping occurrences of old, found from
\* left to right, are replaced; the replacement text is not scanned again.
RECURSIVE StrReplace(_, _, _)
StrReplace(s, old, new) ==
    IF Len(s) < Len(old) THEN s
    ELSE IF StartsWith(s, old)
         THEN new \o StrReplace(SubSeq(s, Len(old) + 1, Len(s)), old, new)
         ELSE CharAt(s, 1) \o StrReplace(SubSeq(s, 2, Len(s)), old, new)

\* sub in s
RECURSIVE StrContains(_, _)
StrContains(s, sub) ==
    IF Len(s) < Len(sub) THEN FALSE
    ELSE StartsWith(s, sub) \/ StrContains(SubSeq(s, 2, Len(s)), sub)

(***************************************************************************)
(* utils.decamel, the camel case to lowercase + underscore conversion that *)
(* _to_internal_name applies.  pmatic.utils is not among the sources; the  *)
(* conversion is the standard one the specification names:                 *)
(*     s1 = re.sub('(.)([A-Z][a-z]+)', r'\1_\2', name)                     *)
(*     re.sub('([a-z0-9])([A-Z])', r'\1_\2', s1).lower()                   *)
(***************************************************************************)
\* The length of the longest run of lowercase letters that starts s.
RECURSIVE LowerRun(_)
LowerRun(s) ==
    IF Len(s) > 0 /\ IsLower(CharAt(s, 1))
    THEN 1 + LowerRun(SubSeq(s, 2, Len(s)))
    ELSE 0

\* re.sub('(.)([A-Z][a-z]+)', r'\1_\2', s)
RECURSIVE DecamelFirst(_)
DecamelFirst(s) ==
    IF Len(s) = 0 THEN ""
    ELSE IF /\ Len(s) >= 3
            /\ IsUpper(CharAt(s, 2))
            /\ LowerRun(SubSeq(s, 3, Len(s))) >= 1
         THEN LET n == 2 + LowerRun(SubSeq(s, 3, Len(s)))
              IN  CharAt(s, 1) \o "_" \o SubSeq(s, 2, n)
                      \o DecamelFirst(SubSeq(s, n + 1, Len(s)))
         ELSE CharAt(s, 1) \o DecamelFirst(SubSeq(s, 2, Len(s)))

\* re.sub('([a-z0-9])([A-Z])', r'\1_\2', s)
RECURSIVE DecamelSecond(_)
DecamelSecond(s) ==
    IF Len(s) = 0 THEN ""
    ELSE IF /\ Len(s) >= 2
            /\ (IsLower(CharAt(s, 1)) \/ IsDigit(CharAt(s, 1)))
            /\ IsUpper(CharAt(s, 2))
         THEN CharAt(s, 1) \o "_" \o CharAt(s, 2)
                  \o DecamelSecond(SubSeq(s, 3, Len(s)))
         ELSE CharAt(s, 1) \o DecamelSecond(SubSeq(s, 2, Len(s)))

decamel(name) == StrLower(DecamelSecond(DecamelFirst(name)))

\* XMLAPI._to_internal_name
to_internal_name(method_name_api) ==
    StrReplace(
        StrReplace(
            StrReplace(decamel(StrReplace(method_name_api, ".", "_")),
                       "bid_co_s", "bidcos"),
            "re_ga", "rega"),
        "__", "_")

\* A _set_address that takes any address starting with http as one with a
\* protocol prefix.
set_address_http(address) ==
    IF ~StartsWith(address, "http")
    THEN "http://" \o address \o ":2001"
    ELSE address \o ":2001"

\* XMLAPI._set_address: the value stored in self._address.
set_address(address) ==
    IF ~StartsWith(address, "https://") /\ ~StartsWith(address, "http://")
    THEN "http://" \o address \o ":2001"
    ELSE address \o ":2001"

(***************************************************************************)
(* The callers, their inputs and the outcomes of the transport stub.       *)
(***************************************************************************)
Threads == {"t1", "t2"}

NoThread == "-"

\* The address the client is constructed with (a string: another value makes
\* __init__ raise and leaves no client).
Addresses == {"192.168.1.26", "https://ccu.local"}

\* A listed value that is not a str is written behind a mark that no str of
\* the listings carries: the int 5.
IntFive == "#5"

IsStr(value) == ~StartsWith(value, "#")

\* What system.listMethods() of the CCU may return.
Listings ==
    { <<"getValue", "get.Value", "ReGa.runScript">>,
      <<"get.Value", "CCU.getSerial">>,
      <<"getValue", IntFive>> }

\* Method names a CCU may list, built from parts.
NameHeads == {"a", "Interface", "ReGa", "BidCoS_RF", "system", "x_"}

NameSeparators == {"", ".", "_", "..", "._", "..."}

NameTails == {"b", "getValue", "Init", "listMethods", "_private"}

RemoteNames ==
    {h \o s \o n : h \in NameHeads, s \in NameSeparators, n \in NameTails}

\* The remote names that are listed, and the local name of each: what
\* _to_internal_name returns for it.
ListedNames ==
    RemoteNames \cup
        UNION {{listed[i] : i \in {j \in 1..Len(listed) : IsStr(listed[j])}} :
                   listed \in Listings}

InternalName == [method \in ListedNames |-> to_internal_name(method)]

\* The attribute names the callers ask the client for.
LocalNames == {"get_value", "rega_run_script", "get_serial"}

\* The positional arguments of a call.
ArgLists == { <<>>, <<"BidCoS-RF:1", "STATE">> }

\* The values a remote method returns.
Results == {"21.5", "true"}

\* The number of operations the callers start in one run.
MaxOps == 3

\* An exception is its class and its str(); None stands in the slots that
\* hold an exception or nothing.
Exc(cls, str) == [cls |-> cls, str |-> str]

NoException == Exc("NoneType", "None")

\* What the transport raises.
UrlError == Exc("ValueError", "Invalid IPv6 URL")

SocketError == Exc("socket.error", "[Errno 111] Connection refused")

HttpError == Exc("ProtocolError", "<ProtocolError for ccu/RPC2: 503 Service Unavailable>")

RemoteFault == Exc("Fault", "<Fault -1: 'Failure'>")

\* What method_name_api.replace raises in _to_internal_name for an int.
NoReplace == Exc("AttributeError", "'int' object has no attribute 'replace'")

ConnectFailures == {UrlError}

ListFailures == {SocketError}

PopulateFailures == {NoReplace}

InvokeFailures == {SocketError, HttpError, RemoteFault}

(***************************************************************************)
(* The state of one XMLAPI object and of its callers.                      *)
(***************************************************************************)
VARIABLES
    given,          \* the address argument XMLAPI was constructed with
    address,        \* self._address
    methods,        \* self._methods: local name -> method specification
    fail_exc,       \* self._fail_exc
    initialized,    \* self._initialized
    proxy,          \* self.proxy: the uri of the ServerProxy, "" before _connect
    api_lock,       \* self._api_lock, a threading.RLock: its owner and depth
    pc,             \* where each caller thread is
    frame,          \* the operation each thread is in: its name and arguments
    held,           \* the callable __getattr__ gave the thread ("" for none)
    ret,            \* how the thread's last operation ended
    transport,      \* the transport stub's record of what it was asked and
                    \* of what it answered
    attempts,       \* history of the initialization attempts
    ops             \* the operations started so far

vars == <<given, address, methods, fail_exc, initialized, proxy, api_lock, pc, frame,
          held, ret, transport, attempts, ops>>

object == <<given, address, methods, fail_exc, initialized, proxy>>

EmptyDict == [k \in {} |-> 0]

NoFrame == [op |-> "", name |-> "", args |-> <<>>]

\* How an operation ended: by "return" or "raise"; the string (val) or the
\* boolean (flag) it returned, the lines it wrote to sys.stdout (out), the
\* exception the caller got (exc) and the one the transport raised (cause).
NoReturn == [op |-> "", name |-> "", args |-> <<>>, kind |-> "", val |-> "",
             flag |-> FALSE, out |-> <<>>, exc |-> NoException,
             cause |-> NoException]

\* XMLAPI.__init__, but for the address.
Fresh ==
    /\ methods = EmptyDict
    /\ fail_exc = NoException
    /\ initialized = FALSE
    /\ proxy = ""
    /\ api_lock = [owner |-> NoThread, count |-> 0]
    /\ pc = [t \in Threads |-> "idle"]
    /\ frame = [t \in Threads |-> NoFrame]
    /\ held = [t \in Threads |-> ""]
    /\ ret = [t \in Threads |-> NoReturn]
    /\ transport = [connects |-> 0, lists |-> 0, invokes |-> 0,
                    method |-> "", args |-> <<>>, result |-> ""]
    /\ attempts = [failed |-> 0, connected |-> 0, listed |-> 0, listing |-> <<>>]
    /\ ops = 0

\* XMLAPI.__init__(address)
Init ==
    /\ \E a \in Addresses : given = a /\ address = set_address(a)
    /\ Fresh

(***************************************************************************)
(* threading.RLock                                                         *)
(***************************************************************************)
\* A lock that excludes nobody.
CanAcquire_lockless(t) == TRUE

\* acquire() does not block: the lock is free or the thread owns it.
CanAcquire(t) == api_lock.owner \in {NoThread, t}

Acquired(t) == [owner |-> t, count |-> api_lock.count + 1]

Released(t) ==
    IF api_lock.count <= 1
    THEN [owner |-> NoThread, count |-> 0]
    ELSE [owner |-> api_lock.owner, count |-> api_lock.count - 1]

\* The threads inside a call of the transport.
InFlight == { t \in Threads : pc[t] \in {"connect", "listMethods", "invoke"} }

(***************************************************************************)
(* The method catalog.                                                     *)
(***************************************************************************)
\* The method specification _init_methods stores for a remote method.
MethodSpec(method) ==
    [NAME |-> method, INFO |-> "", ARGUMENTS |-> <<>>, INT_ARGUMENTS |-> <<>>]

\* A plain assignment d[key] = value: the dict afterwards.
setdefault_overwrite(d, key, value) ==
    [k \in DOMAIN d \cup {key} |-> IF k = key THEN value ELSE d[k]]

\* dict.setdefault(key, value): the dict afterwards.
setdefault(d, key, value) ==
    IF key \in DOMAIN d THEN d ELSE d @@ (key :> value)

\* The loop of _init_methods over the listed methods, in their order.  It
\* ends at the first listed value that is not a str, where _to_internal_name
\* raises, with what it has stored so far.
RECURSIVE InsertMethods(_, _)
InsertMethods(d, listed) ==
    IF listed = <<>> THEN d
    ELSE IF ~IsStr(Head(listed)) THEN d
    ELSE InsertMethods(
             setdefault(d, InternalName[Head(listed)], MethodSpec(Head(listed))),
             Tail(listed))

\* XMLAPI._init_methods, after listMethods() returned: self._methods when
\* the loop has ended.
init_methods(listed) == InsertMethods(EmptyDict, listed)

\* XMLAPI._init_methods, after listMethods() returned: the exception that
\* ends the loop, if one does.
init_methods_raised(listed) ==
    IF \E i \in 1..Len(listed) : ~IsStr(listed[i])
    THEN NoReplace
    ELSE NoException

\* A lookup that falls back to the requested name instead of raising.
get_method_default(method_name_int) ==
    IF method_name_int \in DOMAIN methods
    THEN [raised |-> NoException, method |-> methods[method_name_int]]
    ELSE [raised |-> NoException, method |-> MethodSpec(method_name_int)]

\* XMLAPI._get_method: the method specification, or the exception raised.
get_method(method_name_int) ==
    IF method_name_int \in DOMAIN methods
    THEN [raised |-> NoException, method |-> methods[method_name_int]]
    ELSE [raised |-> Exc("PMException",
                         "Method \"" \o method_name_int \o "\" is not a valid method."),
          method |-> MethodSpec("")]

\* The except clauses of XMLAPI._do_call: what the caller gets when the
\* transport raises e during the call of method_name_int.
do_call_except(e, method_name_int) ==
    IF e.cls = "ProtocolError"
    THEN Exc("PMConnectionError", "Unable to open \"" \o address \o "\": " \o e.str)
    ELSE IF e.cls = "Fault"
         THEN Exc("PMException",
                  "Server error calling \"" \o method_name_int \o "\": " \o e.str)
         ELSE e

(***************************************************************************)
(* How an operation of thread t ends.  The with block releases the lock    *)
(* on both ways out.                                                       *)
(***************************************************************************)
Outcome(t, kind, val, out, exc, cause) ==
    [op |-> frame[t].op, name |-> frame[t].name, args |-> frame[t].args,
     kind |-> kind, val |-> val, flag |-> FALSE, out |-> out, exc |-> exc,
     cause |-> cause]

Returns(t, val, out) ==
    /\ ret' = [ret EXCEPT ![t] =
                  Outcome(t, "return", val, out, NoException, NoException)]
    /\ pc' = [pc EXCEPT ![t] = "idle"]
    /\ frame' = [frame EXCEPT ![t] = NoFrame]

Raises(t, exc, cause) ==
    /\ ret' = [ret EXCEPT ![t] = Outcome(t, "raise", "", <<>>, exc, cause)]
    /\ pc' = [pc EXCEPT ![t] = "idle"]
    /\ frame' = [frame EXCEPT ![t] = NoFrame]

\* A thread may start an operation.
MayStart(t) ==
    /\ pc[t] = "idle"
    /\ ops < MaxOps

(***************************************************************************)
(* The accessors.                                                          *)
(***************************************************************************)
\* XMLAPI.initialized, read by a caller: takes the lock for the read.
ReadInitialized(t) ==
    /\ MayStart(t)
    /\ CanAcquire(t)
    /\ ops' = ops + 1
    /\ ret' = [ret EXCEPT ![t] =
                  [NoReturn EXCEPT !.op = "initialized", !.kind = "return",
                                   !.flag = initialized]]
    /\ UNCHANGED <<object, api_lock, pc, frame, held, transport, attempts>>

\* A fail_reason that hands the failure over and forgets it.
ReadFailReason_reset(t) ==
    /\ MayStart(t)
    /\ ops' = ops + 1
    /\ ret' = [ret EXCEPT ![t] =
                  [NoReturn EXCEPT !.op = "fail_reason", !.kind = "return",
                                   !.exc = fail_exc]]
    /\ fail_exc' = NoException
    /\ UNCHANGED <<given, address, methods, initialized, proxy,
                   api_lock, pc, frame, held, transport, attempts>>

\* XMLAPI.fail_reason: reads self._fail_exc without the lock.
ReadFailReason(t) ==
    /\ MayStart(t)
    /\ ops' = ops + 1
    /\ ret' = [ret EXCEPT ![t] =
                  [NoReturn EXCEPT !.op = "fail_reason", !.kind = "return",
                                   !.exc = fail_exc]]
    /\ UNCHANGED <<object, api_lock, pc, frame, held, transport, attempts>>

\* XMLAPI.address: reads self._address without the lock.
ReadAddress(t) ==
    /\ MayStart(t)
    /\ ops' = ops + 1
    /\ ret' = [ret EXCEPT ![t] =
                  [NoReturn EXCEPT !.op = "address", !.kind = "return",
                                   !.val = address]]
    /\ UNCHANGED <<object, api_lock, pc, frame, held, transport, attempts>>

(***************************************************************************)
(* __getattr__ and print_methods enter _initialize with the lock held.     *)
(***************************************************************************)
\* A __getattr__ that looks the name up before it initializes.
GetAttr_lookupfirst(t, method_name_int) ==
    /\ MayStart(t)
    /\ CanAcquire(t)
    /\ ops' = ops + 1
    /\ IF method_name_int \in DOMAIN methods
       THEN /\ frame' = [frame EXCEPT ![t] =
                           [op |-> "getattr", name |-> method_name_int,
                            args |-> <<>>]]
            /\ api_lock' = Acquired(t)
            /\ pc' = [pc EXCEPT ![t] = "initialize"]
            /\ UNCHANGED <<object, held, ret, transport, attempts>>
       ELSE /\ ret' = [ret EXCEPT ![t] =
                          [NoReturn EXCEPT !.op = "getattr",
                                           !.name = method_name_int,
                                           !.kind = "raise",
                                           !.exc = get_method(method_name_int).raised]]
            /\ UNCHANGED <<object, api_lock, pc, frame, held, transport, attempts>>

\* XMLAPI.__getattr__(method_name_int), up to the call of _initialize.
GetAttr(t, method_name_int) ==
    /\ MayStart(t)
    /\ CanAcquire(t)
    /\ ops' = ops + 1
    /\ frame' = [frame EXCEPT ![t] =
                    [op |-> "getattr", name |-> method_name_int, args |-> <<>>]]
    /\ api_lock' = Acquired(t)
    /\ pc' = [pc EXCEPT ![t] = "initialize"]
    /\ UNCHANGED <<object, held, ret, transport, attempts>>

\* XMLAPI.print_methods, up to the call of _initialize.
PrintMethods(t) ==
    /\ MayStart(t)
    /\ CanAcquire(t)
    /\ ops' = ops + 1
    /\ frame' = [frame EXCEPT ![t] =
                    [op |-> "print_methods", name |-> "", args |-> <<>>]]
    /\ api_lock' = Acquired(t)
    /\ pc' = [pc EXCEPT ![t] = "initialize"]
    /\ UNCHANGED <<object, held, ret, transport, attempts>>

\* _initialize has returned: the with block ends.  __getattr__ returns the
\* callable; print_methods goes on to write the listing.
LeaveWith(t) ==
    /\ api_lock' = Released(t)
    /\ IF frame[t].op = "getattr"
       THEN /\ Returns(t, "lambda", <<>>)
            /\ held' = [held EXCEPT ![t] = frame[t].name]
       ELSE /\ pc' = [pc EXCEPT ![t] = "print"]
            /\ UNCHANGED <<frame, held, ret>>

\* A failing _initialize whose caller leaves without releasing the lock.
InitializeFails_locked(t, e) ==
    /\ initialized' = FALSE
    /\ fail_exc' = e
    /\ attempts' = [attempts EXCEPT !.failed = @ + 1]
    /\ Raises(t, e, e)
    /\ UNCHANGED <<given, address, methods, proxy, api_lock, held, transport, ops>>

\* _initialize raises e: the except clause of _initialize, then the with
\* block ends and the caller of the operation gets e.
InitializeFails(t, e) ==
    /\ initialized' = FALSE
    /\ fail_exc' = e
    /\ attempts' = [attempts EXCEPT !.failed = @ + 1]
    /\ api_lock' = Released(t)
    /\ Raises(t, e, e)
    /\ UNCHANGED <<given, address, methods, proxy, held, transport, ops>>

\* XMLAPI._initialize, the client being ready: returns at once.
InitializeReturn(t) ==
    /\ LeaveWith(t)
    /\ UNCHANGED <<object, transport, attempts, ops>>

\* An _initialize that raises the failure it remembers instead of trying again.
InitializeAttempt_cached(t) ==
    IF fail_exc # NoException
    THEN /\ api_lock' = Released(t)
         /\ Raises(t, fail_exc, fail_exc)
         /\ UNCHANGED <<object, held, transport, attempts, ops>>
    ELSE /\ fail_exc' = NoException
         /\ transport' = [transport EXCEPT !.connects = @ + 1]
         /\ pc' = [pc EXCEPT ![t] = "connect"]
         /\ UNCHANGED <<given, address, methods, initialized, proxy, api_lock, frame,
                        held, ret, attempts, ops>>

\* An _initialize that starts its attempt with the last failure still stored.
InitializeAttempt_keeping(t) ==
    /\ transport' = [transport EXCEPT !.connects = @ + 1]
    /\ pc' = [pc EXCEPT ![t] = "connect"]
    /\ UNCHANGED <<given, address, methods, fail_exc, initialized, proxy, api_lock,
                   frame, held, ret, attempts, ops>>

\* XMLAPI._initialize, the client not being ready: clears the last failure
\* and calls _connect, which constructs the ServerProxy.
InitializeAttempt(t) ==
    /\ fail_exc' = NoException
    /\ transport' = [transport EXCEPT !.connects = @ + 1]
    /\ pc' = [pc EXCEPT ![t] = "connect"]
    /\ UNCHANGED <<given, address, methods, initialized, proxy, api_lock, frame, held,
                   ret, attempts, ops>>

\* An _initialize without the check of self.initialized.
Initialize_unchecked(t) ==
    /\ pc[t] = "initialize"
    /\ CanAcquire(t)
    /\ InitializeAttempt(t)

\* XMLAPI._initialize, up to the transport.  Reading self.initialized takes
\* the lock once more, which the owner of an RLock may.
Initialize(t) ==
    /\ pc[t] = "initialize"
    /\ CanAcquire(t)
    /\ IF initialized THEN InitializeReturn(t) ELSE InitializeAttempt(t)

\* An initialization that sets the client ready once it is connected.
ConnectReturn_ready(t) ==
    /\ pc[t] = "connect"
    /\ proxy' = address
    /\ methods' = EmptyDict
    /\ initialized' = TRUE
    /\ transport' = [transport EXCEPT !.lists = @ + 1]
    /\ attempts' = [attempts EXCEPT !.connected = transport.connects]
    /\ pc' = [pc EXCEPT ![t] = "listMethods"]
    /\ UNCHANGED <<given, address, fail_exc, api_lock, frame, held, ret, ops>>

\* _connect has its ServerProxy; _init_methods clears the catalog and calls
\* system.listMethods().
ConnectReturn(t) ==
    /\ pc[t] = "connect"
    /\ proxy' = address
    /\ methods' = EmptyDict
    /\ transport' = [transport EXCEPT !.lists = @ + 1]
    /\ attempts' = [attempts EXCEPT !.connected = transport.connects]
    /\ pc' = [pc EXCEPT ![t] = "listMethods"]
    /\ UNCHANGED <<given, address, fail_exc, initialized, api_lock, frame, held, ret, ops>>

\* The ServerProxy constructor raises e.
ConnectRaise(t, e) ==
    /\ pc[t] = "connect"
    /\ InitializeFails(t, e)

\* system.listMethods() returns: the loop of _init_methods fills the
\* catalog.  When the loop ends normally _initialize sets the client ready;
\* when it raises, what it has stored stays in the catalog and the except
\* clause of _initialize records the exception.
ListReturn(t, listed) ==
    /\ pc[t] = "listMethods"
    /\ methods' = init_methods(listed)
    /\ IF init_methods_raised(listed) = NoException
       THEN /\ initialized' = TRUE
            /\ attempts' = [attempts EXCEPT !.listed = transport.connects,
                                            !.listing = listed]
            /\ LeaveWith(t)
            /\ UNCHANGED <<given, address, fail_exc, proxy, transport, ops>>
       ELSE /\ initialized' = FALSE
            /\ fail_exc' = init_methods_raised(listed)
            /\ attempts' = [attempts EXCEPT !.failed = @ + 1]
            /\ api_lock' = Released(t)
            /\ Raises(t, init_methods_raised(listed), init_methods_raised(listed))
            /\ UNCHANGED <<given, address, proxy, held, transport, ops>>

\* system.listMethods() raises e: nothing is stored in the catalog, which
\* _init_methods has cleared.
ListRaise(t, e) ==
    /\ pc[t] = "listMethods"
    /\ InitializeFails(t, e)

(***************************************************************************)
(* print_methods writes the catalog, sorted by local name.                 *)
(***************************************************************************)
\* The characters of the names, in the order of their code points.
CodePointOrder == ".0123456789ABCDEFGHIJKLMNOPQRSTUVWXYZ_abcdefghijklmnopqrstuvwxyz"

Ord(c) == CHOOSE i \in 1..Len(CodePointOrder) : CharAt(CodePointOrder, i) = c

\* a < b on Python strings
RECURSIVE StrLess(_, _)
StrLess(a, b) ==
    IF Len(b) = 0 THEN FALSE
    ELSE IF Len(a) = 0 THEN TRUE
    ELSE IF CharAt(a, 1) = CharAt(b, 1)
         THEN StrLess(SubSeq(a, 2, Len(a)), SubSeq(b, 2, Len(b)))
         ELSE Ord(CharAt(a, 1)) < Ord(CharAt(b, 1))

\* sorted(keys)
RECURSIVE Sorted(_)
Sorted(keys) ==
    IF keys = {} THEN <<>>
    ELSE LET least == CHOOSE k \in keys : \A j \in keys \ {k} : StrLess(k, j)
         IN  <<least>> \o Sorted(keys \ {least})

\* ", ".join(strings)
RECURSIVE Join(_)
Join(strings) ==
    IF strings = <<>> THEN ""
    ELSE IF Len(strings) = 1 THEN Head(strings)
    ELSE Head(strings) \o ", " \o Join(Tail(strings))

\* "%-60s" % s
Spaces60 == "                                                            "

Pad60(s) ==
    IF Len(s) >= 60 THEN s ELSE s \o SubSeq(Spaces60, 1, 60 - Len(s))

\* line_format % (left, right)
LineFormat(left, right) == Pad60(left) \o " " \o right \o "\n"

\* The writes of print_methods to sys.stdout, the catalog being d.
PrintedLines(d) ==
    LET names == Sorted(DOMAIN d) IN
        <<LineFormat("Method", "Description")>> \o
            [i \in 1..Len(names) |->
                LineFormat("API." \o names[i] \o "("
                               \o Join(d[names[i]].INT_ARGUMENTS) \o ")",
                           d[names[i]].INFO)]

\* The catalogs the listings give, and what print_methods writes for each.
ListedCatalogs == {init_methods(listed) : listed \in Listings} \cup {EmptyDict}

PrintedOf == [d \in ListedCatalogs |-> PrintedLines(d)]

\* XMLAPI.print_methods after the with block: reads self._methods without
\* the lock.
PrintOut(t) ==
    /\ pc[t] = "print"
    /\ ret' = [ret EXCEPT ![t] =
                  [Outcome(t, "return", "None", <<>>, NoException, NoException)
                       EXCEPT !.out = IF methods \in ListedCatalogs
                                      THEN PrintedOf[methods]
                                      ELSE PrintedLines(methods)]]
    /\ pc' = [pc EXCEPT ![t] = "idle"]
    /\ frame' = [frame EXCEPT ![t] = NoFrame]
    /\ UNCHANGED <<object, api_lock, held, transport, attempts, ops>>

(***************************************************************************)
(* The callable of __getattr__: _call and _do_call.                        *)
(***************************************************************************)
\* A _do_call that asks the CCU for the requested name before it gives up.
CallUnknown_invoking(t, args) ==
    /\ get_method(held[t]).raised # NoException
    /\ ret' = [ret EXCEPT ![t] =
                  [NoReturn EXCEPT !.op = "call", !.name = held[t], !.args = args,
                                   !.kind = "raise",
                                   !.exc = get_method(held[t]).raised]]
    /\ transport' = [transport EXCEPT !.invokes = @ + 1,
                                      !.method = held[t],
                                      !.args = args]
    /\ UNCHANGED <<object, api_lock, pc, frame, held, attempts>>

\* _call takes the lock; _do_call finds no such method: _get_method raises
\* and the with block of _call releases the lock.
CallUnknown(t, args) ==
    /\ get_method(held[t]).raised # NoException
    /\ ret' = [ret EXCEPT ![t] =
                  [NoReturn EXCEPT !.op = "call", !.name = held[t], !.args = args,
                                   !.kind = "raise",
                                   !.exc = get_method(held[t]).raised]]
    /\ UNCHANGED <<object, api_lock, pc, frame, held, transport, attempts>>

\* A _do_call that calls the proxy by the local name of the method.
CallInvoke_local(t, args) ==
    /\ get_method(held[t]).raised = NoException
    /\ api_lock' = Acquired(t)
    /\ frame' = [frame EXCEPT ![t] =
                    [op |-> "call", name |-> held[t], args |-> args]]
    /\ transport' = [transport EXCEPT !.invokes = @ + 1,
                                      !.method = held[t],
                                      !.args = args]
    /\ pc' = [pc EXCEPT ![t] = "invoke"]
    /\ UNCHANGED <<object, held, ret, attempts>>

\* _call takes the lock; _do_call finds the method and calls it on the proxy.
CallInvoke(t, args) ==
    /\ get_method(held[t]).raised = NoException
    /\ api_lock' = Acquired(t)
    /\ frame' = [frame EXCEPT ![t] =
                    [op |-> "call", name |-> held[t], args |-> args]]
    /\ transport' = [transport EXCEPT !.invokes = @ + 1,
                                      !.method = get_method(held[t]).method.NAME,
                                      !.args = args]
    /\ pc' = [pc EXCEPT ![t] = "invoke"]
    /\ UNCHANGED <<object, held, ret, attempts>>

\* The thread calls the callable it holds with args.
Call(t, args) ==
    /\ MayStart(t)
    /\ held[t] # ""
    /\ CanAcquire(t)
    /\ ops' = ops + 1
    /\ CallUnknown(t, args) \/ CallInvoke(t, args)

\* The remote method returns result: _do_call returns it.
InvokeReturn(t, result) ==
    /\ pc[t] = "invoke"
    /\ api_lock' = Released(t)
    /\ transport' = [transport EXCEPT !.result = result]
    /\ Returns(t, result, <<>>)
    /\ UNCHANGED <<object, held, attempts, ops>>

\* A _do_call that takes the client down when the connection fails.
InvokeRaise_teardown(t, e) ==
    /\ pc[t] = "invoke"
    /\ api_lock' = Released(t)
    /\ Raises(t, do_call_except(e, frame[t].name), e)
    /\ initialized' = (e.cls # "ProtocolError")
    /\ UNCHANGED <<given, address, methods, fail_exc, proxy, held, transport, attempts, ops>>

\* The remote method call raises e.
InvokeRaise(t, e) ==
    /\ pc[t] = "invoke"
    /\ api_lock' = Released(t)
    /\ Raises(t, do_call_except(e, frame[t].name), e)
    /\ UNCHANGED <<object, held, transport, attempts, ops>>

Next ==
    \/ \E t \in Threads : ReadInitialized(t)
    \/ \E t \in Threads : ReadFailReason(t)
    \/ \E t \in Threads : ReadAddress(t)
    \/ \E t \in Threads : \E n \in LocalNames : GetAttr(t, n)
    \/ \E t \in Threads : PrintMethods(t)
    \/ \E t \in Threads : Initialize(t)
    \/ \E t \in Threads : ConnectReturn(t)
    \/ \E t \in Threads : \E e \in ConnectFailures : ConnectRaise(t, e)
    \/ \E t \in Threads : \E listed \in Listings : ListReturn(t, listed)
    \/ \E t \in Threads : \E e \in ListFailures : ListRaise(t, e)
    \/ \E t \in Threads : PrintOut(t)
    \/ \E t \in Threads : \E args \in ArgLists : Call(t, args)
    \/ \E t \in Threads : \E result \in Results : InvokeReturn(t, result)
    \/ \E t \in Threads : \E e \in InvokeFailures : InvokeRaise(t, e)

Spec == Init /\ [][Next]_vars
(***************************************************************************)
(* The properties.                                                         *)
(***************************************************************************)
\* The exception _get_method raises for a name the catalog does not hold.
(***************************************************************************)
(* Fair scheduling and a transport that answers: a thread that is inside   *)
(* an operation takes its next step, and every connect, method listing     *)
(* and remote call comes back, with a value or with an exception.          *)
(***************************************************************************)
Continue(t) ==
    \/ Initialize(t)
    \/ ConnectReturn(t)
    \/ \E e \in ConnectFailures : ConnectRaise(t, e)
    \/ \E listed \in Listings : ListReturn(t, listed)
    \/ \E e \in ListFailures : ListRaise(t, e)
    \/ PrintOut(t)
    \/ \E result \in Results : InvokeReturn(t, result)
    \/ \E e \in InvokeFailures : InvokeRaise(t, e)

FairSpec == Spec /\ \A t \in Threads : WF_vars(Continue(t))

(***************************************************************************)
(* The construction alone, over many address strings: __init__ has set     *)
(* self._address = None and is about to call _set_address(address).        *)
(***************************************************************************)
\* self._address = None
NoAddress == ""

AddressPrefixes ==
    {"", "http://", "https://", "http:/", "https:/", "http//", "http",
     "HTTP://", "Https://", "ftp://", "//", " http://"}

AddressHosts == {"192.168.1.26", "ccu.local", "ccu", "", "http://ccu"}

AddressSuffixes == {"", ":2001", "/", ":80/"}

AddressInputs ==
    {p \o h \o s : p \in AddressPrefixes, h \in AddressHosts, s \in AddressSuffixes}

InitAddress ==
    /\ given \in AddressInputs
    /\ address = NoAddress
    /\ Fresh

\* self._set_address(address), the last statement of __init__
SetAddress ==
    /\ address = NoAddress
    /\ address' = set_address(given)
    /\ UNCHANGED <<given, methods, fail_exc, initialized, proxy, api_lock, pc,
                   frame, held, ret, transport, attempts, ops>>

NextAddress == SetAddress

SpecAddress == InitAddress /\ [][NextAddress]_vars

(***************************************************************************)
(* One caller and a CCU that lists one method, over many method names.     *)
(***************************************************************************)
NextTranslate ==
    \/ GetAttr("t1", "get_value")
    \/ Initialize("t1")
    \/ ConnectReturn("t1")
    \/ \E method \in RemoteNames : ListReturn("t1", <<method>>)

SpecTranslate == Init /\ [][NextTranslate]_vars

IsMethodNotFound(e) ==
    /\ e.cls = "PMException"
    /\ StartsWith(e.str, "Method \"")

Quoted(s) == "\"" \o s \o "\""

EndsWith(s, suffix) ==
    /\ Len(suffix) <= Len(s)
    /\ SubSeq(s, Len(s) - Len(suffix) + 1, Len(s)) = suffix

\* C1: at most one thread is inside the transport (connect, method listing
\* or remote call) at any time, and that thread owns the lock.
C1_OneInFlight ==
    /\ Cardinality(InFlight) <= 1
    /\ \A t \in InFlight : api_lock.owner = t

\* One thread is inside the transport while another, idle, is kept out by
\* the lock.
C1_Witness ==
    \E t, u \in Threads :
        /\ t # u
        /\ t \in InFlight
        /\ pc[u] = "idle"
        /\ ops < MaxOps
        /\ ~CanAcquire(u)

\* C2: as long as no initialization attempt failed the transport sees at most
\* one connect and one method listing, exactly one of each once the client is
\* ready, whatever the callers do; there is never more than one attempt beyond
\* the failed ones; a step taken while the client is ready connects and lists
\* nothing.
C2_SingleInitialization ==
    /\ [](/\ transport.connects <= attempts.failed + 1
          /\ transport.lists <= transport.connects
          /\ (attempts.failed = 0 =>
                 /\ transport.connects <= 1
                 /\ transport.lists <= 1)
          /\ (initialized /\ attempts.failed = 0 =>
                 /\ transport.connects = 1
                 /\ transport.lists = 1))
    /\ [][initialized =>
             /\ transport'.connects = transport.connects
             /\ transport'.lists = transport.lists]_vars

\* Both threads have resolved a name, the second one on the ready client, and
\* the transport was connected once.
C2_Witness ==
    /\ initialized
    /\ attempts.failed = 0
    /\ transport.connects = 1
    /\ \A t \in Threads : ret[t].op = "getattr" /\ ret[t].kind = "return"

\* C3: the client is ready only if the latest initialization attempt connected
\* and fetched the method listing, and the catalog is the one built from that
\* listing.
C3_ReadyOnlyAfterBoth ==
    initialized =>
        /\ transport.connects >= 1
        /\ transport.lists >= 1
        /\ attempts.connected = transport.connects
        /\ attempts.listed = transport.connects
        /\ proxy = address
        /\ methods = init_methods(attempts.listing)

\* The client is ready after an attempt that failed at the method listing.
C3_Witness ==
    /\ initialized
    /\ attempts.failed >= 1
    /\ \E t \in Threads : ret[t].kind = "raise" /\ ret[t].exc \in ListFailures

\* C4: once an initialization attempt has failed and while the client is not
\* ready, every read of fail_reason returns a failure, every read of
\* initialized returns false, and the failing attempt raised its failure to
\* the caller.
C4_FailureStaysRecorded ==
    [][\A t \in Threads :
          /\ (attempts.failed >= 1 /\ ~initialized /\ ReadFailReason(t))
                 => ret'[t].exc # NoException
          /\ (attempts.failed >= 1 /\ ~initialized /\ ReadInitialized(t))
                 => ret'[t].flag = FALSE
          /\ (attempts'.failed > attempts.failed /\ pc[t] # "idle" /\ pc'[t] = "idle")
                 => (ret'[t].kind = "raise" /\ ret'[t].exc = fail_exc')]_vars

\* C5: whenever _initialize runs on a client that is not ready it clears the
\* failure and connects anew, whatever failed before; a connect that succeeds
\* is followed by a new method listing on an emptied catalog; and when the
\* listing arrives the client becomes ready and the operation goes on.
C5_RetryFromScratch ==
    [][\A t \in Threads :
          /\ (pc[t] = "initialize" /\ ~initialized /\ pc'[t] # "initialize")
                 => /\ pc'[t] = "connect"
                    /\ transport'.connects = transport.connects + 1
                    /\ fail_exc' = NoException
          /\ (pc[t] = "connect" /\ pc'[t] # "connect"
                  /\ attempts'.failed = attempts.failed)
                 => /\ pc'[t] = "listMethods"
                    /\ transport'.lists = transport.lists + 1
                    /\ DOMAIN methods' = {}
          /\ (pc[t] = "listMethods" /\ pc'[t] # "listMethods"
                  /\ attempts'.failed = attempts.failed)
                 => /\ initialized'
                    /\ frame[t].op = "getattr"
                           => (held'[t] = frame[t].name /\ ret'[t].kind = "return")
                    /\ frame[t].op = "print_methods" => pc'[t] = "print"]_vars

\* The client is ready after two failed attempts.
C5_Witness ==
    /\ initialized
    /\ attempts.failed >= 2
    /\ transport.connects = attempts.failed + 1

\* C6: once the client is ready it stays ready.
C6_ReadyAbsorbing == [][initialized => initialized']_vars

\* The client is ready after a remote call failed with a connection error.
C6_Witness ==
    /\ initialized
    /\ \E t \in Threads :
          /\ ret[t].op = "call"
          /\ ret[t].kind = "raise"
          /\ ret[t].cause.cls = "ProtocolError"

\* C7: on a ready client, a call through a name that the catalog does not hold
\* raises the exception of _get_method, which quotes the requested name, and
\* the transport is not involved.
C7_MethodNotFound ==
    \A t \in Threads :
        (initialized /\ ret[t].op = "call" /\ ret[t].name \notin DOMAIN methods)
            => /\ ret[t].kind = "raise"
               /\ IsMethodNotFound(ret[t].exc)
               /\ StrContains(ret[t].exc.str, Quoted(ret[t].name))
               /\ ret[t].cause = NoException

\* A call through a name that is not in the catalog has ended.
C7_Witness ==
    \E t \in Threads :
        /\ initialized
        /\ ret[t].op = "call"
        /\ ret[t].name \notin DOMAIN methods

\* C8: the exception for an unknown name is raised only by a call on a ready
\* client, after a connect and a method listing; __getattr__ raises nothing
\* but the failure of the initialization attempt it made.
C8_LookupAfterInitialization ==
    \A t \in Threads :
        /\ (ret[t].kind = "raise" /\ IsMethodNotFound(ret[t].exc))
               => /\ ret[t].op = "call"
                  /\ initialized
                  /\ transport.connects >= 1
                  /\ transport.lists >= 1
        /\ (ret[t].kind = "raise" /\ ret[t].op = "getattr")
               => /\ attempts.failed >= 1
                  /\ transport.connects >= 1
                  /\ ret[t].exc \in ConnectFailures \cup ListFailures
                                     \cup PopulateFailures
                  /\ ret[t].exc = ret[t].cause

\* A name that no listing holds was requested and the caller got the failure
\* of the method listing.
C8_Witness ==
    \E t \in Threads :
        /\ ret[t].op = "getattr"
        /\ ret[t].name = "get_serial"
        /\ ret[t].kind = "raise"
        /\ ret[t].exc \in ListFailures

\* C9: whatever the transport raises during a call reaches the caller as
\* PMConnectionError or PMException, the client's own exceptions.
C9_AllFailuresTranslated ==
    \A t \in Threads :
        (ret[t].op = "call" /\ ret[t].kind = "raise")
            => ret[t].exc.cls \in {"PMConnectionError", "PMException"}

\* C10: whatever the transport itself raises during a call of a method of
\* the catalog, a refused connection as much as an HTTP error, reaches the
\* caller as PMConnectionError quoting the normalized address; a Fault
\* answered by the CCU reaches the caller as a PMException, not a
\* PMConnectionError, that quotes the local name of the call and not the
\* remote name.
C10_ErrorReferences ==
    \A t \in Threads :
        (ret[t].op = "call" /\ ret[t].kind = "raise") =>
            /\ ret[t].cause \in InvokeFailures \ {RemoteFault} =>
                   /\ ret[t].exc.cls = "PMConnectionError"
                   /\ StrContains(ret[t].exc.str, Quoted(address))
                   /\ StartsWith(address, "http")
                   /\ EndsWith(address, ":2001")
            /\ ret[t].cause.cls = "Fault" =>
                   /\ ret[t].exc.cls = "PMException"
                   /\ ~IsMethodNotFound(ret[t].exc)
                   /\ StrContains(ret[t].exc.str, Quoted(ret[t].name))
                   /\ ~StrContains(ret[t].exc.str, Quoted(methods[ret[t].name].NAME))

\* C11: a call through a name of the catalog makes exactly one remote
\* invocation: the step that starts it raises the invocation count by one
\* and asks the transport for the descriptor's remote name with the caller's
\* arguments; nothing invokes again until the call has ended; and what the
\* transport answers is what the caller gets.
C11_OneRemoteInvocation ==
    [][\A t \in Threads :
          /\ \A args \in ArgLists :
                 (Call(t, args) /\ initialized /\ held[t] \in DOMAIN methods)
                     => /\ transport' = [transport EXCEPT
                                            !.invokes = @ + 1,
                                            !.method = methods[held[t]].NAME,
                                            !.args = args]
                        /\ pc'[t] = "invoke"
          /\ pc[t] = "invoke"
                 => /\ transport'.invokes = transport.invokes
                    /\ transport'.method = transport.method
                    /\ transport'.args = transport.args
          /\ (pc[t] = "invoke" /\ pc'[t] = "idle" /\ ret'[t].kind = "return")
                 => /\ ret'[t].op = "call"
                    /\ ret'[t].val = transport'.result
                    /\ ret'[t].val \in Results
      ]_vars

\* A call of rega_run_script with two arguments returned: the transport was
\* asked once, for ReGa.runScript with the two arguments, and answered true.
C11_Witness ==
    \E t \in Threads :
        /\ ret[t].op = "call"
        /\ ret[t].name = "rega_run_script"
        /\ ret[t].kind = "return"
        /\ ret[t].val = "true"
        /\ transport.invokes = 1
        /\ transport.method = "ReGa.runScript"
        /\ transport.args = <<"BidCoS-RF:1", "STATE">>
        /\ transport.result = "true"

\* The positions of a listing whose name translates to the local name key.
ListedAs(listing, key) ==
    {i \in 1..Len(listing) : InternalName[listing[i]] = key}

\* The first name of a listing that translates to the local name key.
FirstListed(listing, key) ==
    listing[CHOOSE i \in ListedAs(listing, key) :
                \A j \in ListedAs(listing, key) : i <= j]

\* C12: when several listed names translate to one local name, the ready
\* client's catalog holds under that local name the one listed first, the
\* initialization has not failed over the others, and a call through the
\* local name asks the transport for the first-listed remote name.
C12_FirstListedWins ==
    initialized =>
        /\ \A i \in 1..Len(attempts.listing) :
               LET key == InternalName[attempts.listing[i]] IN
                   /\ key \in DOMAIN methods
                   /\ methods[key].NAME = FirstListed(attempts.listing, key)
        /\ \A key \in DOMAIN methods :
               /\ ListedAs(attempts.listing, key) # {}
               /\ methods[key].NAME = FirstListed(attempts.listing, key)
        /\ attempts.listed = transport.connects
        /\ \A t \in Threads :
               pc[t] = "invoke" =>
                   transport.method = FirstListed(attempts.listing, frame[t].name)

\* getValue was listed before get.Value, both translate to get_value, and a
\* call through get_value is at the transport under the name getValue.
C12_Witness ==
    \E t \in Threads :
        /\ initialized
        /\ attempts.failed = 0
        /\ Cardinality(ListedAs(attempts.listing, "get_value")) = 2
        /\ attempts.listing[1] = "getValue"
        /\ attempts.listing[2] = "get.Value"
        /\ pc[t] = "invoke"
        /\ frame[t].name = "get_value"
        /\ transport.method = "getValue"

\* C13: a read of initialized, fail_reason or address is one step that
\* returns the present value and leaves the client as it was: no connect, no
\* method listing, no remote call, no attempt started, and the address, the
\* catalog, the recorded failure and the ready flag unchanged.  The address
\* is changed by no step at all.
C13_AccessorsOnlyRead ==
    [][/\ \A t \in Threads :
             (ReadInitialized(t) \/ ReadFailReason(t) \/ ReadAddress(t))
                 => /\ UNCHANGED <<address, methods, fail_exc, initialized,
                                   proxy, transport, attempts, api_lock, pc>>
                    /\ ret'[t].kind = "return"
                    /\ ret'[t].op = "initialized" => ret'[t].flag = initialized
                    /\ ret'[t].op = "fail_reason" => ret'[t].exc = fail_exc
                    /\ ret'[t].op = "address" => ret'[t].val = address
       /\ address' = address
      ]_vars

\* After one failed attempt a thread has read fail_reason and got the
\* failure, the other has read initialized and got false, and the transport
\* has still been connected to once only.
C13_Witness ==
    \E t, u \in Threads :
        /\ ret[t].op = "fail_reason"
        /\ ret[t].exc \in ConnectFailures \cup ListFailures
        /\ ret[u].op = "initialized"
        /\ ret[u].flag = FALSE
        /\ attempts.failed = 1
        /\ transport.connects = 1
        /\ ~initialized
        /\ api_lock.owner = NoThread

\* C14: the address stored at construction ends with :2001 and is the given
\* string with nothing but :2001 appended when the given string starts with
\* http:// or https://, and otherwise the given string between http:// and
\* :2001; 192.168.1.26 is stored as http://192.168.1.26:2001 and
\* https://ccu.local as https://ccu.local:2001.
C14_AddressNormalized ==
    address # NoAddress =>
        /\ EndsWith(address, ":2001")
        /\ (StartsWith(given, "http://") \/ StartsWith(given, "https://"))
               => /\ Len(address) = Len(given) + 5
                  /\ SubSeq(address, 1, Len(given)) = given
        /\ ~(StartsWith(given, "http://") \/ StartsWith(given, "https://"))
               => /\ Len(address) = 7 + Len(given) + 5
                  /\ SubSeq(address, 1, 7) = "http://"
                  /\ SubSeq(address, 8, 7 + Len(given)) = given
        /\ given = "192.168.1.26" => address = "http://192.168.1.26:2001"
        /\ given = "https://ccu.local" => address = "https://ccu.local:2001"

\* An address with a prefix that is almost a protocol prefix was stored
\* behind http://.
C14_Witness ==
    /\ given = "http:/ccu.local"
    /\ address = "http://http:/ccu.local:2001"

\* C15: no local name of the catalog, as the translator made it from a
\* listed remote name, has two underscores in a row.
C15_NoDoubledUnderscore ==
    \A method_name_int \in DOMAIN methods :
        ~StrContains(method_name_int, "__")

\* The local names a listing gives.
InternalNames(listing) == {InternalName[listing[i]] : i \in 1..Len(listing)}

\* C16: the catalog of a ready client is what the listing of the successful
\* attempt gives, key for key and descriptor for descriptor, however many
\* attempts failed before; and while the failure on record is one of
\* _init_methods, raised by listMethods() or by the loop over what it
\* returned, the catalog is empty.
C16_CatalogFromLastListing ==
    /\ initialized =>
           /\ DOMAIN methods = InternalNames(attempts.listing)
           /\ \A key \in DOMAIN methods :
                  methods[key] = MethodSpec(FirstListed(attempts.listing, key))
    /\ (~initialized /\ fail_exc \in ListFailures \cup PopulateFailures)
           => methods = EmptyDict

\* C17: the catalog changes only in a step of an initialization attempt,
\* taken by the thread that owns the lock while it is in _connect or in
\* _init_methods; with the lock free a catalog that is not empty belongs to
\* a ready client; and no step taken on a ready client changes the catalog.
C17_CatalogWrittenUnderLock ==
    /\ [](api_lock.owner = NoThread /\ methods # EmptyDict => initialized)
    /\ [][/\ initialized => methods' = methods
          /\ methods' # methods =>
                 \E t \in Threads :
                     /\ api_lock.owner = t
                     /\ api_lock.count >= 1
                     /\ pc[t] \in {"connect", "listMethods"}
                     /\ pc'[t] # pc[t]
         ]_vars

\* C18: a ready client has no failure recorded.  An attempt starts by
\* clearing the recorded failure, the steps of a successful attempt leave it
\* cleared, and no step of a call, whether it invokes, returns, finds no
\* method or fails at the transport or remotely, records anything.
C18_ReadyHasNoFailure ==
    /\ [](initialized => fail_exc = NoException)
    /\ [][\A t \in Threads :
              /\ (pc[t] = "initialize" /\ pc'[t] = "connect")
                     => fail_exc' = NoException
              /\ (pc[t] \in {"connect", "listMethods"} /\ fail_exc' # NoException)
                     => /\ ~initialized'
                        /\ ret'[t].kind = "raise"
                        /\ ret'[t].exc = fail_exc'
              /\ pc[t] = "invoke" => fail_exc' = fail_exc
              /\ \A args \in ArgLists : Call(t, args) => fail_exc' = fail_exc
         ]_vars

\* A first attempt failed, a second made the client ready, and a call
\* through the callable then failed: no failure is recorded.
C18_Witness ==
    \E t \in Threads :
        /\ attempts.failed >= 1
        /\ initialized
        /\ ret[t].op = "call"
        /\ ret[t].kind = "raise"
        /\ fail_exc = NoException

\* C20: a call on a ready client through a name that is not in the catalog
\* is over in its own step, with the exception for an unknown method, and
\* the transport is not touched: no invocation is counted and none is left
\* in flight.
C20_UnknownNameInvokesNothing ==
    [][\A t \in Threads : \A args \in ArgLists :
          (Call(t, args) /\ initialized /\ held[t] \notin DOMAIN methods)
              => /\ transport'.invokes = transport.invokes
                 /\ transport' = transport
                 /\ pc'[t] = "idle"
                 /\ api_lock' = api_lock
                 /\ ret'[t].kind = "raise"
                 /\ IsMethodNotFound(ret'[t].exc)
      ]_vars

\* The only call made on a ready client went through a name that is not in
\* the catalog, it got the exception for an unknown method, and the
\* transport has invoked nothing.
C20_Witness ==
    \E t \in Threads :
        /\ initialized
        /\ ret[t].op = "call"
        /\ ret[t].name = "get_serial"
        /\ ret[t].name \notin DOMAIN methods
        /\ IsMethodNotFound(ret[t].exc)
        /\ transport.invokes = 0
        /\ transport.lists >= 1

\* C19: a thread that is not inside an operation, or is past the with block
\* of print_methods, does not own the lock, whichever way its last operation
\* ended; the lock is owned exactly while its depth is not zero, and a
\* thread inside a with block is its owner, so it is never the one waiting.
\* With fair scheduling and a transport that answers, every operation that
\* has started ends and a lock that is held becomes free.
C19_LockAlwaysReleased ==
    /\ [](\A t \in Threads :
              /\ pc[t] \in {"idle", "print"} => api_lock.owner # t
              /\ pc[t] \notin {"idle", "print"}
                     => /\ api_lock.owner = t
                        /\ api_lock.count >= 1)
    /\ [](api_lock.owner = NoThread <=> api_lock.count = 0)
    /\ \A t \in Threads : (pc[t] # "idle") ~> (pc[t] = "idle")
    /\ (api_lock.owner # NoThread) ~> (api_lock.owner = NoThread)

\* One thread's operation ended with the failure of an initialization
\* attempt, the other's with an exception of a call, and the lock is free.
C19_Witness ==
    \E t, u \in Threads :
        /\ ret[t].op \in {"getattr", "print_methods"}
        /\ ret[t].kind = "raise"
        /\ ret[u].op = "call"
        /\ ret[u].kind = "raise"
        /\ pc[t] = "idle"
        /\ pc[u] = "idle"
        /\ api_lock = [owner |-> NoThread, count |-> 0]
====
